---- MODULE Spec2Model ----
(***************************************************************************)
(* Model of uavcan_posix::BasicFileSeverBackend                            *)
(* (libuavcan_drivers/posix/include/uavcan_posix/                          *)
(* basic_file_server_backend.hpp): the file descriptor cache FDCache, the  *)
(* passthrough FDCacheBase, and the getInfo / read back-ends, running on   *)
(* one thread together with the periodic garbage-collection timer.         *)
(*                                                                         *)
(* The POSIX calls the code makes (open, lseek, read, close, stat, time)   *)
(* are modelled over a small fixed file system and a descriptor table.     *)
(* 64-bit quantities (the read offset, a file position) are kept as four   *)
(* 16-bit limbs, most significant first, so that the off_t sign bit and    *)
(* the truncation of lseek's result to int are computed on the real bit    *)
(* positions.                                                              *)
(***************************************************************************)
EXTENDS Integers, Sequences, FiniteSets, TLC

\* ---------------------------------------------------------------- bounds
\* The wall clock time(NULL) runs over 1..MaxClock.
MaxClock == 9
\* The process can have MaxFiles descriptors open at a time (beyond the
\* standard streams); ::open fails with EMFILE when all are in use.
MaxFiles == 3
\* The clock advances by 0 or by MaxDelay seconds while one read() is running.
MaxDelay == 8
\* read() is called with inout_size = MaxReadSize (the caller passes the fixed
\* capacity of its response buffer).
MaxReadSize == 2

\* ------------------------------------------------------ program constants
MaxAgeSeconds == 7
InvalidFD == -1
O_RDONLY == 0
INVALID_VALUE == 22
FLAG_FILE == 1
FLAG_DIRECTORY == 2
FLAG_READABLE == 4
\* errno values set by the POSIX calls
ENOENT == 2
EBADF == 9
ENOMEM == 12
EMFILE == 24
EISDIR == 21
EINVAL == 22
\* first descriptor number the process gets (0, 1, 2 are the standard streams)
FirstFD == 3

Limb == 65536
HalfLimb == 32768

\* ------------------------------------------------------------ file system
\* The (unmodified) file system: two regular files, a directory, a node of
\* another type; every other path does not exist.
Paths == {"", "f", "g", "d", "n", "x"}

Kind(path) ==
    CASE path \in {"f", "g"} -> "reg"
      [] path = "d" -> "dir"
      [] path = "n" -> "other"
      [] OTHER -> "none"

Content(path) ==
    CASE path = "f" -> <<10, 11, 12>>
      [] path = "g" -> <<20, 21, 22>>
      [] OTHER -> <<>>

\* st_size reported by stat
StatSize(path) == IF Kind(path) = "reg" THEN Len(Content(path)) ELSE 0

\* ------------------------------------------------------ 64-bit quantities
U64(a, b, c, d) == <<a, b, c, d>>
Zero64 == U64(0, 0, 0, 0)

\* offsets read() is called with: 0, 2, 2^31, 2^32 + 1, 2^63
SmallOffsets == {U64(0, 0, 0, 0), U64(0, 0, 0, 2)}
LargeOffsets == {U64(0, 0, HalfLimb, 0), U64(0, 1, 0, 1), U64(HalfLimb, 0, 0, 0)}

\* the (path, offset) pairs read() is called with
Requests == ({"f", "g"} \X SmallOffsets) \cup ({"f"} \X LargeOffsets)
            \cup ({"", "d", "x"} \X {Zero64})

\* the value as off_t (signed 64 bit) is negative
OffTNegative(u) == u[1] >= HalfLimb

\* conversion of a non-negative off_t to int (32 bit, two's complement)
ToInt32(u) ==
    IF u[3] >= HalfLimb THEN (u[3] - Limb) * Limb + u[4]
                        ELSE u[3] * Limb + u[4]

\* conversion of an int to int16_t
ToInt16(i) ==
    LET m == i % Limb IN IF m >= HalfLimb THEN m - Limb ELSE m

\* conversion of an ssize_t to uint16_t
ToUint16(i) == i % Limb

\* u + k for a small k >= 0, with carry
Add64(u, k) ==
    LET s4 == u[4] + k
        s3 == u[3] + (s4 \div Limb)
        s2 == u[2] + (s3 \div Limb)
        s1 == u[1] + (s2 \div Limb)
    IN  U64(s1 % Limb, s2 % Limb, s3 % Limb, s4 % Limb)

\* bytes of a file of `size` bytes that lie at or after position u
Remaining(u, size) ==
    IF u[1] = 0 /\ u[2] = 0 /\ u[3] = 0 /\ u[4] < size THEN size - u[4] ELSE 0

Min(a, b) == IF a <= b THEN a ELSE b

\* ------------------------------------------------------------------ state
VARIABLES
    now,        \* time(NULL)
    alive,      \* the BasicFileSeverBackend object has not been destroyed
    fdcache_,   \* "null", "cache" (an FDCache) or "fallback" (&fallback_)
    timer,      \* the FDCache's periodic timer is running
    head_,      \* FDCache::head_: the list of FDCacheItem, first item first
    fdtab,      \* the process's descriptor table: fd -> open file, or NoFile
    errno,      \* the thread's errno
    badClose,   \* some ::close was issued on a descriptor that was not open
    gc,         \* the descriptors the cache closed on its own (removeExpired,
                \* clear) in the step just taken
    ret,        \* what the last getInfo / read call was given and returned
    ref         \* the reference back-end, a BasicFileSeverBackend in a process
                \* of its own whose fdcache_ is &fallback_ (FDCacheBase): its
                \* descriptor table, its errno, what its last read call returned

vars == <<now, alive, fdcache_, timer, head_, fdtab, errno, badClose, gc, ret, ref>>

FDs == FirstFD .. (FirstFD + MaxFiles - 1)
NoFile == [open |-> FALSE, path |-> "", pos |-> Zero64]

\* the part of the state the cache and the POSIX calls work on, with what
\* the step under way did so far: calls counts the POSIX calls it made, opens
\* its successful ::open calls, swept holds the descriptors removeExpired closed
World == [head_ |-> head_, fdtab |-> fdtab, errno |-> errno,
          badClose |-> badClose, calls |-> 0, opens |-> 0, swept |-> {}]

\* the part of the reference back-end's state the POSIX calls work on
RefWorld == [head_ |-> <<>>, fdtab |-> ref.fdtab, errno |-> ref.errno,
             badClose |-> FALSE, calls |-> 0, opens |-> 0, swept |-> {}]

\* gc after a step in which `by` closed the descriptors fds
NoGC == [by |-> "none", fds |-> {}]
Swept(by, fds) == IF fds = {} THEN NoGC ELSE [by |-> by, fds |-> fds]

IsOpen(tab, fd) == fd \in DOMAIN tab /\ tab[fd].open

\* ------------------------------------------------------------ POSIX calls
LowestFree(tab) == CHOOSE fd \in DOMAIN tab :
                      /\ ~tab[fd].open
                      /\ \A g \in DOMAIN tab : ~tab[g].open => fd <= g

TableFull(tab) == \A fd \in DOMAIN tab : tab[fd].open

\* ::open(path, O_RDONLY)
sys_open(w, path) ==
    IF Kind(path) = "none"
    THEN [w |-> [w EXCEPT !.errno = ENOENT, !.calls = @ + 1], fd |-> -1]
    ELSE IF TableFull(w.fdtab)
    THEN [w |-> [w EXCEPT !.errno = EMFILE, !.calls = @ + 1], fd |-> -1]
    ELSE LET fd == LowestFree(w.fdtab)
         IN  [w |-> [w EXCEPT !.fdtab[fd] = [open |-> TRUE, path |-> path,
                                              pos |-> Zero64],
                              !.calls = @ + 1, !.opens = @ + 1],
              fd |-> fd]

\* ::close(fd)
sys_close(w, fd) ==
    IF IsOpen(w.fdtab, fd)
    THEN [w EXCEPT !.fdtab[fd] = NoFile, !.calls = @ + 1]
    ELSE [w EXCEPT !.errno = EBADF, !.badClose = TRUE, !.calls = @ + 1]

\* ::lseek(fd, offset, SEEK_SET): the new position, or a failure
sys_lseek(w, fd, offset) ==
    IF ~IsOpen(w.fdtab, fd)
    THEN [w |-> [w EXCEPT !.errno = EBADF, !.calls = @ + 1], ok |-> FALSE]
    ELSE IF OffTNegative(offset)
    THEN [w |-> [w EXCEPT !.errno = EINVAL, !.calls = @ + 1], ok |-> FALSE]
    ELSE [w |-> [w EXCEPT !.fdtab[fd].pos = offset, !.calls = @ + 1], ok |-> TRUE]

\* ::read(fd, buf, count): the bytes read, or a failure (len = -1)
sys_read(w, fd, count) ==
    IF ~IsOpen(w.fdtab, fd)
    THEN [w |-> [w EXCEPT !.errno = EBADF, !.calls = @ + 1], len |-> -1, data |-> <<>>]
    ELSE IF Kind(w.fdtab[fd].path) = "dir"
    THEN [w |-> [w EXCEPT !.errno = EISDIR, !.calls = @ + 1], len |-> -1, data |-> <<>>]
    ELSE LET f    == w.fdtab[fd]
             body == Content(f.path)
             len  == Min(count, Remaining(f.pos, Len(body)))
         IN  [w |-> [w EXCEPT !.fdtab[fd].pos = Add64(f.pos, len), !.calls = @ + 1],
              len |-> len,
              data |-> IF len = 0 THEN <<>>
                       ELSE SubSeq(body, f.pos[4] + 1, f.pos[4] + len)]

\* ------------------------------------------------------------ FDCacheBase
FDCacheBase_open(w, path, oflags) == sys_open(w, path)

FDCacheBase_close(w, fd) == sys_close(w, fd)

\* ------------------------------------------------------------ FDCacheItem
FDCacheItem(fd, path, oflags) ==
    [last_access_ |-> 0, fd_ |-> fd, oflags_ |-> oflags, path_ |-> path]

\* mutant: an item is taken to be expired as soon as its age reaches the limit
expired_at_limit(item, t) ==
    0 = item.last_access_ \/ (t - item.last_access_) >= MaxAgeSeconds

expired(item, t) ==
    0 = item.last_access_ \/ (t - item.last_access_) > MaxAgeSeconds

\* mutant: the paths are compared as pointers; the item's path_ is its own
\* copy, so the pointers never agree
equals_pointers(item, path, oflags) == item.oflags_ = oflags /\ FALSE

equals(item, path, oflags) == item.oflags_ = oflags /\ item.path_ = path

equals_fd(item, fd) == item.fd_ = fd

\* ---------------------------------------------------------------- FDCache
\* index of the first item with (path, oflags), 0 when there is none
find(head, path, oflags) ==
    IF \E i \in 1..Len(head) : equals(head[i], path, oflags)
    THEN CHOOSE i \in 1..Len(head) :
            /\ equals(head[i], path, oflags)
            /\ \A j \in 1..(i - 1) : ~equals(head[j], path, oflags)
    ELSE 0

\* index of the first item with descriptor fd, 0 when there is none
find_fd(head, fd) ==
    IF \E i \in 1..Len(head) : equals_fd(head[i], fd)
    THEN CHOOSE i \in 1..Len(head) :
            /\ equals_fd(head[i], fd)
            /\ \A j \in 1..(i - 1) : ~equals_fd(head[j], fd)
    ELSE 0

add(head, item, t) == <<[item EXCEPT !.last_access_ = t]>> \o head

\* removeExpired(&head_) from item i on: every expired item is closed and
\* unlinked, in list order
RECURSIVE removeExpiredFrom(_, _, _)
removeExpiredFrom(w, i, t) ==
    IF i > Len(w.head_) THEN w
    ELSE IF expired(w.head_[i], t)
    THEN LET c == FDCacheBase_close(w, w.head_[i].fd_)
             h == w.head_
         IN  removeExpiredFrom(
                 [c EXCEPT !.head_ = SubSeq(h, 1, i - 1) \o SubSeq(h, i + 1, Len(h)),
                           !.swept = @ \cup {h[i].fd_}],
                 i, t)
    ELSE removeExpiredFrom(w, i + 1, t)

removeExpired(w, t) == removeExpiredFrom(w, 1, t)

\* mutant: the item is never marked expired
remove_no_expire(w, pi, done, t) == removeExpired(w, t)

\* mutant: the sweep runs only when the session is done
remove_sweep_if_done(w, pi, done, t) ==
    IF done THEN removeExpired([w EXCEPT !.head_[pi].last_access_ = 0], t) ELSE w

remove(w, pi, done, t) ==
    removeExpired(IF done THEN [w EXCEPT !.head_[pi].last_access_ = 0] ELSE w, t)

RECURSIVE clearFrom(_, _)
clearFrom(w, i) ==
    IF i > Len(w.head_) THEN [w EXCEPT !.head_ = <<>>]
    ELSE clearFrom(FDCacheBase_close(w, w.head_[i].fd_), i + 1)

clear(w) == clearFrom(w, 1)

\* mutant: an item that is expired is not taken for a hit
FDCache_open_checks_stale(w, path, oflags, t, alloc) ==
    LET pi == find(w.head_, path, oflags)
    IN  IF pi # 0 /\ ~expired(w.head_[pi], t)
        THEN [w |-> [w EXCEPT !.head_[pi].last_access_ = t], fd |-> w.head_[pi].fd_]
        ELSE LET o == FDCacheBase_open(w, path, oflags)
             IN  IF o.fd < 0 THEN o
                 ELSE IF alloc = "new_null" THEN o
                 ELSE IF alloc = "strdup_null"
                 THEN [w |-> [o.w EXCEPT !.errno = ENOMEM], fd |-> o.fd]
                 ELSE [w |-> [o.w EXCEPT !.head_ =
                                 add(o.w.head_, FDCacheItem(o.fd, path, oflags), t)],
                       fd |-> o.fd]

\* mutant: a hit sweeps the cache before it hands out the item's descriptor
FDCache_open_sweep_first(w, path, oflags, t, alloc) ==
    LET pi == find(w.head_, path, oflags)
    IN  IF pi # 0
        THEN [w |-> removeExpired(w, t), fd |-> w.head_[pi].fd_]
        ELSE LET o == FDCacheBase_open(w, path, oflags)
             IN  IF o.fd < 0 THEN o
                 ELSE IF alloc = "new_null" THEN o
                 ELSE IF alloc = "strdup_null"
                 THEN [w |-> [o.w EXCEPT !.errno = ENOMEM], fd |-> o.fd]
                 ELSE [w |-> [o.w EXCEPT !.head_ =
                                 add(o.w.head_, FDCacheItem(o.fd, path, oflags), t)],
                       fd |-> o.fd]

\* mutant: a hit returns the local fd, still InvalidFD, instead of pi->getFD()
FDCache_open_local_fd(w, path, oflags, t, alloc) ==
    LET pi == find(w.head_, path, oflags)
    IN  IF pi # 0
        THEN [w |-> [w EXCEPT !.head_[pi].last_access_ = t], fd |-> InvalidFD]
        ELSE LET o == FDCacheBase_open(w, path, oflags)
             IN  IF o.fd < 0 THEN o
                 ELSE IF alloc = "new_null" THEN o
                 ELSE IF alloc = "strdup_null"
                 THEN [w |-> [o.w EXCEPT !.errno = ENOMEM], fd |-> o.fd]
                 ELSE [w |-> [o.w EXCEPT !.head_ =
                                 add(o.w.head_, FDCacheItem(o.fd, path, oflags), t)],
                       fd |-> o.fd]

\* FDCache::open; alloc is the outcome of `new FDCacheItem(fd, path, oflags)`:
\* "ok", "new_null" (no item) or "strdup_null" (an item whose path_ is NULL)
FDCache_open(w, path, oflags, t, alloc) ==
    LET pi == find(w.head_, path, oflags)
    IN  IF pi # 0
        THEN [w |-> [w EXCEPT !.head_[pi].last_access_ = t], fd |-> w.head_[pi].fd_]
        ELSE LET o == FDCacheBase_open(w, path, oflags)
             IN  IF o.fd < 0 THEN o
                 ELSE IF alloc = "new_null" THEN o
                 ELSE IF alloc = "strdup_null"
                 THEN [w |-> [o.w EXCEPT !.errno = ENOMEM], fd |-> o.fd]
                 ELSE [w |-> [o.w EXCEPT !.head_ =
                                 add(o.w.head_, FDCacheItem(o.fd, path, oflags), t)],
                       fd |-> o.fd]

\* mutant: the descriptor is closed again after the item was handled
FDCache_close_twice(w, fd, done, t) ==
    LET pi == find_fd(w.head_, fd)
    IN  IF pi = 0 THEN FDCacheBase_close(w, fd)
        ELSE FDCacheBase_close(remove(w, pi, done, t), fd)

\* FDCache::close
FDCache_close(w, fd, done, t) ==
    LET pi == find_fd(w.head_, fd)
    IN  IF pi = 0 THEN FDCacheBase_close(w, fd) ELSE remove(w, pi, done, t)

\* --------------------------------------------------- BasicFileSeverBackend
\* getFDCache: the strategy in use after the call; cacheAlloc is whether
\* `new FDCache(node_)` yields an object
getFDCache(cacheAlloc) ==
    IF fdcache_ = "null" THEN (IF cacheAlloc THEN "cache" ELSE "fallback")
    ELSE fdcache_

\* mutant: the periodic timer is never started
init_no_timer(strategy) == FALSE

\* FDCache::init starts the periodic timer; FDCacheBase::init does nothing
init(strategy) == strategy = "cache"

\* mutant: the destructor leaves the periodic timer running
stop_skipped == timer

\* TimerBase::stop, called first by ~FDCache: the timer is no longer running
stop == FALSE

cache_open(strategy, w, path, oflags, t, alloc) ==
    IF strategy = "cache" THEN FDCache_open(w, path, oflags, t, alloc)
    ELSE FDCacheBase_open(w, path, oflags)

cache_close(strategy, w, fd, done, t) ==
    IF strategy = "cache" THEN FDCache_close(w, fd, done, t)
    ELSE FDCacheBase_close(w, fd)

\* ret: the call (op, path, offset, and the values its size and flags
\* parameters had when it was made: n, in_flags), what it returned (rv, and
\* size, data, flags through its output parameters), how many POSIX calls it
\* made (calls), and for read() the descriptor it acquired (fd), whether the
\* cache had an item for it (hit) and whether that item was expired() at the
\* time (stale), how many ::open calls succeeded (opens) and the done flag it
\* released the descriptor with
NoRet == [op |-> "none", path |-> "", offset |-> Zero64, n |-> 0, in_flags |-> 0,
          rv |-> 0, size |-> 0, data |-> <<>>, flags |-> 0, calls |-> 0,
          fd |-> InvalidFD, hit |-> FALSE, stale |-> FALSE, opens |-> 0,
          done |-> FALSE]

\* mutant: the empty path is not rejected
nonEmpty_always(path) == TRUE

\* path.size() > 0
nonEmpty(path) == path # ""

\* mutant: the tests of the entry type are exchanged
entryFlags_swapped(kind) ==
    FLAG_READABLE + (IF kind = "reg" THEN FLAG_DIRECTORY
                     ELSE IF kind = "dir" THEN FLAG_FILE
                     ELSE 0)

\* out_type.flags for an entry of the kind stat reports
entryFlags(kind) ==
    FLAG_READABLE + (IF kind = "dir" THEN FLAG_DIRECTORY
                     ELSE IF kind = "reg" THEN FLAG_FILE
                     ELSE 0)

\* read(), from the release of the handle on: cache.close(fd, rv != 0 || len !=
\* inout_size) and inout_size = len. r is what ::read left (or len = 0 when it
\* was not called), rv the status so far.
readClose(strategy, r, rv, fd, inout_size, t1, hit) ==
    LET done == rv # 0 \/ r.len # inout_size
    IN  [w |-> cache_close(strategy, r.w, fd, done, t1), rv |-> rv,
         size |-> ToUint16(r.len), data |-> r.data, fd |-> fd, hit |-> hit,
         done |-> done]

\* read(), after ::read returned r
readRead(strategy, r, fd, inout_size, t1, hit) ==
    readClose(strategy, r, IF r.len < 0 THEN r.w.errno ELSE 0, fd, inout_size, t1,
              hit)

\* mutant: read() returns as soon as the seek failed, without releasing
readSeek_return_on_error(strategy, s, fd, offset, inout_size, t1, hit) ==
    LET rv == IF s.ok THEN ToInt32(offset) ELSE -1
    IN  IF rv < 0
        THEN [w |-> s.w, rv |-> s.w.errno, size |-> inout_size, data |-> <<>>,
              fd |-> fd, hit |-> hit, done |-> FALSE]
        ELSE readRead(strategy, sys_read(s.w, fd, inout_size), fd, inout_size, t1,
                      hit)

\* read(), after rv = ::lseek(fd, offset, SEEK_SET) returned s; the off_t result
\* is stored in the int rv
readSeek(strategy, s, fd, offset, inout_size, t1, hit) ==
    LET rv == IF s.ok THEN ToInt32(offset) ELSE -1
    IN  IF rv < 0
        THEN readClose(strategy, [w |-> s.w, len |-> 0, data |-> <<>>], s.w.errno,
                       fd, inout_size, t1, hit)
        ELSE readRead(strategy, sys_read(s.w, fd, inout_size), fd, inout_size, t1,
                      hit)

\* mutant: the handle is released although cache.open failed
readOpen_release_failed(strategy, o, offset, inout_size, t1, hit) ==
    IF o.fd < 0
    THEN [w |-> cache_close(strategy, o.w, o.fd, TRUE, t1), rv |-> o.w.errno,
          size |-> inout_size, data |-> <<>>, fd |-> o.fd, hit |-> hit,
          done |-> TRUE]
    ELSE readSeek(strategy, sys_lseek(o.w, o.fd, offset), o.fd, offset, inout_size,
                  t1, hit)

\* read(), after cache.open(path, O_RDONLY) returned o
readOpen(strategy, o, offset, inout_size, t1, hit) ==
    IF o.fd < 0
    THEN [w |-> o.w, rv |-> o.w.errno, size |-> inout_size, data |-> <<>>,
          fd |-> o.fd, hit |-> hit, done |-> FALSE]
    ELSE readSeek(strategy, sys_lseek(o.w, o.fd, offset), o.fd, offset, inout_size,
                  t1, hit)

\* the body of read() for a non-empty path: [w, rv, size, data, fd, hit, done].
\* t0 is time(NULL) while the handle is acquired, t1 while it is released.
readBody(strategy, w, path, offset, inout_size, alloc, t0, t1) ==
    readOpen(strategy, cache_open(strategy, w, path, O_RDONLY, t0, alloc),
             offset, inout_size, t1,
             strategy = "cache" /\ find(w.head_, path, O_RDONLY) # 0)

\* BasicFileSeverBackend::read(path, offset, out_buffer, inout_size)
read(path, offset, inout_size, cacheAlloc, alloc, dt) ==
    /\ alive
    /\ now + dt <= MaxClock
    /\ IF ~nonEmpty(path)
       THEN /\ ret' = [NoRet EXCEPT !.op = "read", !.path = path, !.offset = offset,
                                    !.n = inout_size, !.rv = INVALID_VALUE,
                                    !.size = inout_size]
            /\ gc' = NoGC
            /\ UNCHANGED <<now, alive, fdcache_, timer, head_, fdtab, errno,
                           badClose>>
       ELSE \E b \in {readBody(getFDCache(cacheAlloc), World, path, offset,
                               inout_size, alloc, now, now + dt)} :
                /\ fdcache_' = getFDCache(cacheAlloc)
                /\ timer' = IF fdcache_ = "null" THEN init(getFDCache(cacheAlloc))
                            ELSE timer
                /\ now' = now + dt
                /\ head_' = b.w.head_
                /\ fdtab' = b.w.fdtab
                /\ errno' = b.w.errno
                /\ badClose' = b.w.badClose
                /\ gc' = Swept("close", b.w.swept)
                /\ ret' = [NoRet EXCEPT !.op = "read", !.path = path,
                                        !.offset = offset, !.n = inout_size,
                                        !.rv = ToInt16(b.rv), !.size = b.size,
                                        !.data = b.data, !.fd = b.fd,
                                        !.hit = b.hit,
                                        !.stale = b.hit /\ expired(
                                            head_[find(head_, path, O_RDONLY)], now),
                                        !.calls = b.w.calls,
                                        !.opens = b.w.opens,
                                        !.done = b.done]
                /\ UNCHANGED alive

\* BasicFileSeverBackend::read(path, offset, out_buffer, inout_size) of the
\* reference back-end, whose getFDCache() returns fallback_; t0 and t1 as in
\* readBody
read_fallback(path, offset, inout_size, t0, t1) ==
    IF ~nonEmpty(path)
    THEN ref' = [ref EXCEPT !.rv = INVALID_VALUE, !.size = inout_size, !.data = <<>>]
    ELSE \E p \in {readBody("fallback", RefWorld, path, offset, inout_size, "ok",
                             t0, t1)} :
             ref' = [fdtab |-> p.w.fdtab, errno |-> p.w.errno, rv |-> ToInt16(p.rv),
                     size |-> p.size, data |-> p.data]

\* BasicFileSeverBackend::getInfo(path, out_size, out_type); out_size and
\* out_type are the values the caller's variables hold when it is called
getInfo(path, out_size, out_type) ==
    /\ alive
    /\ IF ~nonEmpty(path)
       THEN /\ ret' = [NoRet EXCEPT !.op = "getInfo", !.path = path,
                                    !.n = out_size, !.in_flags = out_type,
                                    !.rv = INVALID_VALUE,
                                    !.size = out_size, !.flags = out_type]
            /\ UNCHANGED errno
       ELSE IF Kind(path) = "none"
       THEN /\ errno' = ENOENT
            /\ ret' = [NoRet EXCEPT !.op = "getInfo", !.path = path,
                                    !.n = out_size, !.in_flags = out_type,
                                    !.rv = ToInt16(ENOENT), !.calls = 1,
                                    !.size = out_size, !.flags = out_type]
       ELSE /\ ret' = [NoRet EXCEPT !.op = "getInfo", !.path = path,
                                    !.n = out_size, !.in_flags = out_type,
                                    !.rv = 0, !.calls = 1,
                                    !.size = StatSize(path),
                                    !.flags = entryFlags(Kind(path))]
            /\ UNCHANGED errno
    /\ gc' = NoGC
    /\ UNCHANGED <<now, alive, fdcache_, timer, head_, fdtab, badClose>>

\* FDCache::handleTimerEvent: the periodic timer started by init() fires; it
\* fires for as long as it has not been stopped
handleTimerEvent ==
    /\ timer
    /\ \E w \in {removeExpired(World, now)} :
           /\ head_' = w.head_
           /\ fdtab' = w.fdtab
           /\ errno' = w.errno
           /\ badClose' = w.badClose
           /\ gc' = Swept("timer", w.swept)
    /\ UNCHANGED <<now, alive, fdcache_, timer, ret, ref>>

\* ~BasicFileSeverBackend, and ~FDCache when an FDCache was built
Destroy ==
    /\ alive
    /\ alive' = FALSE
    /\ IF fdcache_ = "cache"
       THEN \E w \in {clear(World)} :
                /\ timer' = stop
                /\ fdcache_' = "null"
                /\ head_' = w.head_
                /\ fdtab' = w.fdtab
                /\ errno' = w.errno
                /\ badClose' = w.badClose
                /\ gc' = Swept("clear", {head_[i].fd_ : i \in 1..Len(head_)})
       ELSE /\ fdcache_' = IF fdcache_ = "fallback" THEN "fallback" ELSE "null"
            /\ gc' = NoGC
            /\ UNCHANGED <<timer, head_, fdtab, errno, badClose>>
    /\ UNCHANGED <<now, ret, ref>>

\* one second passes on the wall clock
Tick ==
    /\ now < MaxClock
    /\ now' = now + 1
    /\ gc' = NoGC
    /\ UNCHANGED <<alive, fdcache_, timer, head_, fdtab, errno, badClose, ret, ref>>

Init ==
    /\ now = 1
    /\ alive = TRUE
    /\ fdcache_ = "null"
    /\ timer = FALSE
    /\ head_ = <<>>
    /\ fdtab = [fd \in FDs |-> NoFile]
    /\ errno = 0
    /\ badClose = FALSE
    /\ gc = NoGC
    /\ ret = NoRet
    /\ ref = [fdtab |-> [fd \in FDs |-> NoFile], errno |-> 0, rv |-> 0,
              size |-> 0, data |-> <<>>]

AllocOutcomes == {"ok", "new_null", "strdup_null"}

Delays == {0, MaxDelay}

\* the outcomes `new FDCache(node_)` can have in getFDCache
CacheAllocs == IF fdcache_ = "null" THEN BOOLEAN ELSE {TRUE}

\* the outcomes `new FDCacheItem(...)` can have in FDCache::open of path
ItemAllocs(path) ==
    IF Kind(path) # "none" /\ fdcache_ # "fallback" /\ find(head_, path, O_RDONLY) = 0
    THEN AllocOutcomes ELSE {"ok"}

Read ==
    \E rq \in Requests, cacheAlloc \in CacheAllocs, dt \in Delays :
        \E alloc \in ItemAllocs(rq[1]) :
            /\ read(rq[1], rq[2], MaxReadSize, cacheAlloc, alloc, dt)
            /\ UNCHANGED ref

\* the values the caller's out_size and out_type hold when getInfo is called
OutInits == {<<9, 7>>}

GetInfo ==
    \E path \in Paths, o \in OutInits : getInfo(path, o[1], o[2]) /\ UNCHANGED ref

\* a call of read() made on the back-end and on the reference back-end
ReadBoth ==
    \E rq \in Requests, cacheAlloc \in CacheAllocs, dt \in Delays :
        \E alloc \in ItemAllocs(rq[1]) :
            /\ read(rq[1], rq[2], MaxReadSize, cacheAlloc, alloc, dt)
            /\ read_fallback(rq[1], rq[2], MaxReadSize, now, now + dt)

\* The cache and read(): getInfo touches neither (it can only set errno, to
\* the value a failed ::open sets it to), so the claims about them are
\* checked without it.
Next ==
    \/ Read
    \/ handleTimerEvent
    \/ Destroy
    \/ Tick

Spec == Init /\ [][Next]_vars

\* The whole back-end, getInfo included.
NextInfo ==
    \/ GetInfo
    \/ Read
    \/ handleTimerEvent
    \/ Destroy
    \/ Tick

SpecInfo == Init /\ [][NextInfo]_vars

\* The back-end next to the reference back-end, every read made on both.
NextRef ==
    \/ ReadBoth
    \/ handleTimerEvent
    \/ Destroy
    \/ Tick

SpecRef == Init /\ [][NextRef]_vars

\* The clock keeps advancing and the periodic timer keeps firing.
FairSpec == Spec /\ WF_vars(Tick) /\ WF_vars(handleTimerEvent)

\* ================================================================ claims
\* paths an FDCacheItem can exist for
CachePaths == {"f", "g", "d"}

HasEntry(path) == find(head_, path, O_RDONLY) # 0
EntryOf(path) == head_[find(head_, path, O_RDONLY)]
\* the cache holds an item last accessed at t
CachedAt(t) == \E i \in 1..Len(head_) : head_[i].last_access_ = t

\* the step is a call of read(): the one whose arguments ret' records
IsReadAlloc(allocs) ==
    /\ ret'.op = "read"
    /\ <<ret'.path, ret'.offset>> \in Requests
    /\ (now' - now) \in Delays
    /\ \E cacheAlloc \in CacheAllocs :
         \E alloc \in ItemAllocs(ret'.path) \cap allocs :
            read(ret'.path, ret'.offset, ret'.n, cacheAlloc, alloc, now' - now)

IsRead == IsReadAlloc(AllocOutcomes)

\* the call of read() acquired a handle
GotHandle == ret'.fd # InvalidFD

\* no item of the cache is stale
NoneStale == \A i \in 1..Len(head_) : ~expired(head_[i], now)
\* every open descriptor is the descriptor of an item of the cache
OpenHeld == \A fd \in FDs : IsOpen(fdtab, fd) => find_fd(head_, fd) # 0

\* C1. Uniqueness: in every reachable state no two items of the cache have
\* the same (path, open mode).
C1_Uniqueness ==
    \A i, j \in 1..Len(head_) :
        (head_[i].path_ = head_[j].path_ /\ head_[i].oflags_ = head_[j].oflags_)
            => i = j

\* a second acquire of a cached (path, mode) was served while two items are cached
C1_Witness ==
    /\ ret.op = "read" /\ ret.hit
    /\ Len(head_) = 2
    /\ HasEntry(ret.path)

\* C2. Every handle ::open returned is closed exactly once: no ::close is
\* issued on a descriptor that is not open, every open descriptor is held by
\* exactly one item, every item holds an open descriptor of its own path, and
\* after the destructor nothing is open.
C2_ClosedExactlyOnce ==
    /\ ~badClose
    /\ \A fd \in FDs :
          IsOpen(fdtab, fd) =>
              Cardinality({i \in 1..Len(head_) : head_[i].fd_ = fd}) = 1
    /\ \A i \in 1..Len(head_) :
          /\ IsOpen(fdtab, head_[i].fd_)
          /\ fdtab[head_[i].fd_].path = head_[i].path_
    /\ (~alive => \A fd \in FDs : ~IsOpen(fdtab, fd))

\* the destructor has just closed the handles of two items, one of them left
\* in the cache by the last call, and nothing is open
C2_Witness ==
    /\ ~alive
    /\ gc.by = "clear" /\ Cardinality(gc.fds) = 2
    /\ ret.op = "read" /\ ~ret.done /\ ret.fd \in gc.fds
    /\ \A fd \in FDs : ~IsOpen(fdtab, fd)

\* C3. Hit stability: when read() acquires (path, O_RDONLY) while the cache
\* holds an item for it (nothing removed it since it was acquired before), the
\* call gets the handle of that item and ::open is not called.
C3_HitStability ==
    [][\A p \in CachePaths :
          (HasEntry(p) /\ ret'.path = p /\ IsRead)
              => (ret'.hit /\ ret'.fd = EntryOf(p).fd_ /\ ret'.opens = 0)]_vars

\* the last call was served from the cache, and its item is still there
C3_Witness ==
    /\ ret.op = "read" /\ ret.hit /\ ~ret.done /\ ret.opens = 0
    /\ HasEntry(ret.path)
    /\ EntryOf(ret.path).fd_ = ret.fd

\* C4. Done-release purges: when a call of read() releases its handle with
\* done = true, the cache holds no item for the path afterwards and the handle
\* is closed; and a call that finds no item for its path and gets a handle
\* gets one from a fresh ::open, on a descriptor that was not open before.
C4_DonePurges ==
    [][\A p \in CachePaths :
          (ret'.path = p /\ IsRead)
              => /\ ret'.done => (~HasEntry(p))' /\ ~IsOpen(fdtab', ret'.fd)
                 /\ (~HasEntry(p) /\ GotHandle)
                        => (~ret'.hit /\ ret'.opens = 1 /\ ~IsOpen(fdtab, ret'.fd))]_vars

\* a handle that came from the cache was released with done = true
C4_Witness ==
    /\ ret.op = "read" /\ ret.hit /\ ret.done
    /\ ~HasEntry(ret.path)
    /\ ~IsOpen(fdtab, ret.fd)

\* C5 as claimed: after the timer's sweep and after every release of a handle
\* by read(), no stale item is left in the cache.
C5_SweepOnAnyRelease ==
    [][(handleTimerEvent \/ (IsRead /\ GotHandle)) => NoneStale']_vars

\* C5 as amended: after the timer's sweep and after every release of a handle
\* that the cache holds an item for, no stale item is left in the cache and
\* every descriptor still open belongs to an item that is left.
C5_SweepOnCachedRelease ==
    [][(handleTimerEvent
        \/ (IsReadAlloc({"ok"}) /\ GotHandle /\ fdcache_' = "cache"))
          => (NoneStale' /\ OpenHeld')]_vars

\* a release with done = false closed the stale handle of another session
C5_Witness ==
    /\ gc.by = "close"
    /\ ret.op = "read" /\ ~ret.done
    /\ \E h \in gc.fds : h # ret.fd

\* C6. Not before staleness: an item whose age at the time of a sweep is at
\* most MaxAgeSeconds stays in the cache, with its descriptor and last access
\* unchanged, through the timer's sweep and through every call of read() for
\* another path; a call of read() for its own path removes it only when it
\* releases with done = true or lasts longer than MaxAgeSeconds, and otherwise
\* leaves it with its handle and the time of the call as last access.
C6_NotBeforeStale ==
    [][\A i \in 1..Len(head_) :
          LET e == head_[i]
          IN  (alive' /\ now' - e.last_access_ <= MaxAgeSeconds)
                => \/ /\ \E j \in 1..Len(head_') : head_'[j] = e
                      /\ fdtab'[e.fd_] = fdtab[e.fd_]
                   \/ /\ ret'.path = e.path_
                      /\ IsRead
                      /\ \/ ret'.done
                         \/ now' - now > MaxAgeSeconds
                         \/ /\ \E j \in 1..Len(head_') :
                                  head_'[j] = [e EXCEPT !.last_access_ = now]
                            /\ IsOpen(fdtab', e.fd_)
                            /\ ret'.opens = 0]_vars

\* a sweep has just closed a stale handle and left an item whose age is
\* exactly MaxAgeSeconds
C6_Witness ==
    /\ gc.by \in {"timer", "close"}
    /\ \E i \in 1..Len(head_) : now - head_[i].last_access_ = MaxAgeSeconds

\* C7. Abandoned sessions are reclaimed: when the cache holds items last
\* accessed at t (early enough for the bounded clock to pass their age limit),
\* eventually it holds none last accessed at t, each having been removed or
\* accessed again by a later call, and every descriptor still open is that
\* of an item left in the cache: the handles of the removed items are closed.
C7_Reclaimed ==
    \A t \in 1..MaxClock :
        (t + MaxAgeSeconds < MaxClock) => (CachedAt(t) ~> (~CachedAt(t) /\ OpenHeld))

\* the timer has just closed the handle of an abandoned session, the only
\* one the cache held
C7_Witness ==
    /\ gc.by = "timer"
    /\ head_ = <<>>
    /\ \A fd \in FDs : ~IsOpen(fdtab, fd)
    /\ alive

\* what a read of n bytes at offset finds in the (unmodified) file
ExpectedLen(path, offset, n) == Min(n, Remaining(offset, Len(Content(path))))
ExpectedData(path, offset, n) ==
    IF ExpectedLen(path, offset, n) = 0 THEN <<>>
    ELSE SubSeq(Content(path), offset[4] + 1, offset[4] + ExpectedLen(path, offset, n))

\* the step is a call of read() for a regular file at an offset the OS can
\* seek to, in which `new FDCacheItem` fails
AllocFailsInRead ==
    /\ Kind(ret'.path) = "reg"
    /\ ~OffTNegative(ret'.offset)
    /\ IsReadAlloc({"new_null", "strdup_null"})

\* C8 as claimed: graceful degradation. When the allocation of the cache item
\* fails during a read, the read succeeds with the data and length found in
\* the file, its handle is closed directly by the release, and the cache holds
\* no item afterwards.
C8_GracefulDegradation ==
    [][AllocFailsInRead
          => /\ ret'.rv = 0
             /\ ret'.size = ExpectedLen(ret'.path, ret'.offset, ret'.n)
             /\ ret'.data = ExpectedData(ret'.path, ret'.offset, ret'.n)
             /\ ~IsOpen(fdtab', ret'.fd)
             /\ Len(head_') = 0]_vars

\* C9 as claimed: short-read semantics. A read of a regular file that has
\* fewer than n bytes left at the offset returns status 0 and the length that
\* is left, and releases the handle as done, so that the cache holds no item
\* for the path when the call returns.
C9_ShortRead ==
    [][(/\ Kind(ret'.path) = "reg"
        /\ ~OffTNegative(ret'.offset)
        /\ ExpectedLen(ret'.path, ret'.offset, ret'.n) < ret'.n
        /\ IsRead)
          => /\ ret'.rv = 0
             /\ ret'.size = ExpectedLen(ret'.path, ret'.offset, ret'.n)
             /\ ret'.size < ret'.n
             /\ ret'.done
             /\ (~HasEntry(ret.path))']_vars

\* the state of a process that has made no call yet
Fresh == [head_ |-> <<>>, fdtab |-> [fd \in FDs |-> NoFile], errno |-> 0,
          badClose |-> FALSE, calls |-> 0, opens |-> 0, swept |-> {}]

\* what read(path, offset, n) returns when it is the first call of the process
FirstResult(path, offset, n) ==
    LET b == readBody("cache", Fresh, path, offset, n, "ok", 1, 1)
    IN  <<ToInt16(b.rv), b.size, b.data>>

\* C10 as claimed: idempotent reads. Whatever happened before it, a call
\* read(path, offset, n) returns the status, bytes and length that the same
\* call returned when it was the first call made.
C10_IdempotentReads ==
    (ret.op = "read" /\ ret.path # "")
        => <<ret.rv, ret.size, ret.data>> = FirstResult(ret.path, ret.offset, ret.n)

\* C11. Teardown: once the back-end is destroyed the periodic timer is stopped
\* (handleTimerEvent can no longer run, so no sweep runs on the cache), the
\* cache holds no item and no descriptor is open.
C11_Teardown ==
    ~alive => /\ ~timer
              /\ ~ENABLED handleTimerEvent
              /\ head_ = <<>>
              /\ \A fd \in FDs : ~IsOpen(fdtab, fd)

\* the destructor found the timer running and an item, served from the cache
\* by the last call, still cached, and closed its descriptor
C11_Witness ==
    /\ ~alive /\ fdcache_ = "null"
    /\ gc.by = "clear" /\ gc.fds = {ret.fd}
    /\ ret.hit /\ ~ret.done

\* the step is a call of getInfo(): the one whose arguments ret' records
IsGetInfo ==
    /\ ret'.op = "getInfo"
    /\ <<ret'.n, ret'.in_flags>> \in OutInits
    /\ getInfo(ret'.path, ret'.n, ret'.in_flags)

\* C12. Empty path: getInfo and read called with an empty path return
\* INVALID_VALUE, make no POSIX call, leave the cache as it is (no item added,
\* refreshed or swept, the cache object not constructed, the timer not
\* started) and leave size, flags and inout_size at the values passed in.
C12_EmptyPath ==
    [][(ret'.path = "" /\ (IsRead \/ IsGetInfo))
          => /\ ret'.rv = INVALID_VALUE
             /\ ret'.calls = 0
             /\ ret'.size = ret'.n /\ ret'.flags = ret'.in_flags
             /\ gc' = NoGC
             /\ UNCHANGED <<head_, fdtab, fdcache_, timer, errno, now>>]_vars

\* read was called with an empty path before any cache was constructed
C12_Witness ==
    /\ ret.op = "read" /\ ret.path = "" /\ ret.rv = INVALID_VALUE
    /\ fdcache_ = "null" /\ alive

\* C13. Open failure: when ::open fails in a call of read() that finds no item
\* for its path, the call gets no handle and returns the errno ::open set;
\* no item is added for the path, ::open is the only POSIX call made (no
\* close, no sweep), inout_size is left as passed in, and the items of the
\* cache and the descriptor table are left unchanged.
C13_OpenFailure ==
    [][(Kind(ret'.path) = "none" /\ ret'.path # "" /\ IsRead)
          => /\ ret'.fd = InvalidFD
             /\ ret'.rv = ENOENT /\ ret'.rv = errno'
             /\ ret'.calls = 1 /\ ret'.opens = 0
             /\ ret'.size = ret'.n
             /\ gc' = NoGC
             /\ (~HasEntry(ret.path))'
             /\ UNCHANGED <<head_, fdtab>>]_vars

\* read of a missing path failed while the cache held two items
C13_Witness ==
    /\ ret.op = "read" /\ ret.path = "x" /\ ret.rv = ENOENT
    /\ Len(head_) = 2
    /\ \E i \in 1..Len(head_) : expired(head_[i], now)

\* C14. Error ends the session: a call of read() in which ::lseek fails (the
\* offset is negative as off_t) returns EINVAL, one in which ::read fails (the
\* path is a directory) returns EISDIR, and both release the handle with done
\* = true, leaving no item for the path and the descriptor closed; every call
\* that got a handle releases it with done = (status # 0 or the length
\* reported # the length requested), and a done release leaves the
\* descriptor closed.
C14_ErrorEndsSession ==
    [][(IsRead /\ GotHandle)
          => /\ ret'.done = (ret'.rv # 0 \/ ret'.size # ret'.n)
             /\ ret'.done => ((~HasEntry(ret.path))' /\ ~IsOpen(fdtab', ret'.fd))
             /\ OffTNegative(ret'.offset) => (ret'.rv = EINVAL /\ ret'.done)
             /\ (Kind(ret'.path) = "dir" /\ ~OffTNegative(ret'.offset))
                    => (ret'.rv = EISDIR /\ ret'.done)]_vars

\* a seek failed on a handle that came from the cache, and the item is gone
C14_Witness ==
    /\ ret.op = "read" /\ ret.hit /\ ret.rv = EINVAL /\ ret.done
    /\ OffTNegative(ret.offset)
    /\ ~HasEntry(ret.path) /\ ~IsOpen(fdtab, ret.fd)

\* bit f (a power of two) is set in flags
HasFlag(flags, f) == (flags \div f) % 2 = 1

\* C15. getInfo on a non-empty path: when stat fails the call returns the
\* errno stat set and leaves size and flags as passed in; when stat succeeds
\* it returns 0, the size of the file, and flags in which READABLE is set,
\* DIRECTORY is set iff the entry is a directory, FILE is set iff it is a
\* regular file, the two are never both set, and an entry of another type
\* has READABLE only.
C15_GetInfo ==
    (ret.op = "getInfo" /\ ret.path # "")
        => IF Kind(ret.path) = "none"
           THEN /\ ret.rv = ENOENT
                /\ ret.size = ret.n /\ ret.flags = ret.in_flags
           ELSE /\ ret.rv = 0
                /\ ret.size = StatSize(ret.path)
                /\ HasFlag(ret.flags, FLAG_READABLE)
                /\ HasFlag(ret.flags, FLAG_DIRECTORY) <=> Kind(ret.path) = "dir"
                /\ HasFlag(ret.flags, FLAG_FILE) <=> Kind(ret.path) = "reg"
                /\ ~(HasFlag(ret.flags, FLAG_DIRECTORY) /\ HasFlag(ret.flags, FLAG_FILE))
                /\ Kind(ret.path) = "other" => ret.flags = FLAG_READABLE
                /\ ret.flags \in {FLAG_READABLE, FLAG_READABLE + FLAG_DIRECTORY,
                                  FLAG_READABLE + FLAG_FILE}

\* getInfo was called on a directory while the cache held an item
C15_Witness ==
    /\ ret.op = "getInfo" /\ ret.path = "d" /\ ret.rv = 0
    /\ ret.flags = FLAG_READABLE + FLAG_DIRECTORY
    /\ head_ # <<>>

\* C16 as claimed: the cache is equivalent to the passthrough. After every
\* sequence of read calls, timer sweeps and clock advances, the last read
\* returned the status, bytes and length that the back-end using FDCacheBase
\* returned for it when run on the same sequence.
C16_CacheIsPassthrough ==
    ret.op = "read" => <<ret.rv, ret.size, ret.data>> = <<ref.rv, ref.size, ref.data>>

\* C17. A handle is valid from acquire to release: in every call of read()
\* that got a handle, ::lseek and ::read are issued on an open descriptor
\* (neither fails with EBADF) and so is the ::close of the release, and for
\* a regular file at an offset below 2^31 the call returns the bytes of the
\* file. The timer's sweep is a step of its own and never runs inside a call.
C17_HandleValid ==
    [][(IsRead /\ GotHandle)
          => /\ ret'.rv # EBADF /\ errno' # EBADF
             /\ ~badClose'
             /\ gc'.by # "timer"
             /\ (Kind(ret'.path) = "reg" /\ ret'.offset \in SmallOffsets)
                    => /\ ret'.rv = 0
                       /\ ret'.data = ExpectedData(ret'.path, ret'.offset, ret'.n)]_vars

\* a handle that came from the cache was read from, and the sweep of its own
\* release then closed it: the call took longer than MaxAgeSeconds
C17_Witness ==
    /\ ret.op = "read" /\ ret.hit /\ ~ret.done
    /\ ret.rv = 0 /\ ret.data # <<>>
    /\ gc.by = "close" /\ ret.fd \in gc.fds

\* C18 as claimed: read returns at most the requested length. After every
\* call of read() with a non-empty path the length reported in inout_size is
\* at most the length passed in.
C18_AtMostRequested ==
    (ret.op = "read" /\ ret.path # "") => ret.size <= ret.n

\* C19 as claimed: a successful seek is never reported as a failure. Every
\* call of read() that got a handle on a regular file, at an offset that is
\* not negative as off_t (::lseek succeeds), returns status 0 with the bytes
\* and the length found in the file at that offset.
C19_SeekSuccess ==
    (/\ ret.op = "read" /\ ret.fd # InvalidFD
     /\ Kind(ret.path) = "reg" /\ ~OffTNegative(ret.offset))
        => /\ ret.rv = 0
           /\ ret.size = ExpectedLen(ret.path, ret.offset, ret.n)
           /\ ret.data = ExpectedData(ret.path, ret.offset, ret.n)

\* C20. A hit does not check staleness: a call of read() for a path whose
\* item is expired but still in the cache gets the item's descriptor without
\* an ::open call; unless the call releases with done = true or lasts longer
\* than MaxAgeSeconds, the item is in the cache after the call, with the same
\* open descriptor and the time of the acquire as last access, and is not
\* expired: the sweep of the release did not remove it.
C20_StaleHit ==
    [][\A p \in CachePaths :
          (HasEntry(p) /\ expired(EntryOf(p), now) /\ ret'.path = p /\ IsRead)
              => /\ ret'.hit /\ ret'.stale
                 /\ ret'.fd = EntryOf(p).fd_
                 /\ ret'.opens = 0
                 /\ (~ret'.done /\ now' - now <= MaxAgeSeconds)
                        => /\ HasEntry(p)'
                           /\ EntryOf(p)' = [EntryOf(p) EXCEPT !.last_access_ = now]
                           /\ IsOpen(fdtab', ret'.fd)
                           /\ ~expired(EntryOf(p)', now')]_vars

\* a stale item was hit and is still cached after the release, whose sweep
\* closed the stale handle of another session
C20_Witness ==
    /\ ret.op = "read" /\ ret.hit /\ ret.stale /\ ~ret.done
    /\ HasEntry(ret.path) /\ EntryOf(ret.path).fd_ = ret.fd
    /\ gc.by = "close" /\ gc.fds # {}

====
